---- MODULE Spec2Model ----
\* Model of generate_feed.py: a run of main() over the YAML configs of the
\* feeds directory, scraping each site and writing one feed file per site.
\*
\* Strings are sequences of tokens.  A token is a character (" ", "\t", "#",
\* ",", "/", "_") or an indivisible chunk of characters that the code never
\* looks inside ("javascript:", "mailto:", "http:", a word such as "my").
EXTENDS Integers, Sequences, FiniteSets, TLC

VARIABLES feeds_dir, files, pc, fi, cfg, site_name, url, link_prefix, fields,
          elements, i, entries, fs, outcome, wrote, fetched

vars == <<feeds_dir, files, pc, fi, cfg, site_name, url, link_prefix, fields,
          elements, i, entries, fs, outcome, wrote, fetched>>

\* ------------------------------------------------------------------ bounds
MaxFiles == 2
MaxNodes == 3

\* --------------------------------------------------------- string helpers
\* Python str.strip() with no argument removes every kind of whitespace.
WS == {" ", "\t"}

RECURSIVE LStrip(_)
LStrip(s) == IF s # <<>> /\ Head(s) \in WS THEN LStrip(Tail(s)) ELSE s

RECURSIVE RStrip(_)
RStrip(s) == IF s # <<>> /\ s[Len(s)] \in WS THEN RStrip(SubSeq(s, 1, Len(s) - 1)) ELSE s

Strip(s) == RStrip(LStrip(s))

StartsWith(s, p) == Len(s) >= Len(p) /\ SubSeq(s, 1, Len(p)) = p

\* s.split(sep)[0]: the part of s before the first occurrence of sep.
SplitFirst(s, sep) ==
    IF \E k \in 1..Len(s) : s[k] = sep
    THEN LET k == CHOOSE k \in 1..Len(s) : s[k] = sep /\ \A j \in 1..(k - 1) : s[j] # sep
         IN SubSeq(s, 1, k - 1)
    ELSE s

RECURSIVE RemoveAll(_, _)
RemoveAll(s, c) ==
    IF s = <<>> THEN <<>>
    ELSE IF Head(s) = c THEN RemoveAll(Tail(s), c)
    ELSE <<Head(s)>> \o RemoveAll(Tail(s), c)

\* entries left in selection order.
ReverseNoop(s) == s

\* list.reverse()
Reverse(s) == [k \in 1..Len(s) |-> s[Len(s) + 1 - k]]

\* ----------------------------------------------------------- Python values
\* A value read from the parsed YAML: a missing key, null, a string, or a
\* truthy value that is not a string (a number, a list).
Str(s) == [t |-> "str", s |-> s]
None == [t |-> "none", s |-> <<>>]
Missing == [t |-> "missing", s |-> <<>>]
Other == [t |-> "other", s |-> <<>>]

Truthy(v) == (v.t = "str" /\ v.s # <<>>) \/ v.t = "other"

\* (cfg.get(key) or "").strip(): raises AttributeError on a truthy non-string.
StripOrEmpty(v) ==
    IF ~Truthy(v) THEN [exc |-> FALSE, v |-> <<>>]
    ELSE IF v.t = "str" THEN [exc |-> FALSE, v |-> Strip(v.s)]
    ELSE [exc |-> TRUE, v |-> <<>>]

\* fields.get(key, ""): the default replaces a missing key only, not a null.
FieldGet(v) == IF v.t = "missing" THEN Str(<<>>) ELSE v

\* ---------------------------------------------------------------- safe_slug
NonWord == {" ", "\t", "#", ",", "/", "!"}

RECURSIVE SubNonWord(_, _)
SubNonWord(s, inRun) ==
    IF s = <<>> THEN <<>>
    ELSE IF Head(s) \in NonWord
         THEN (IF inRun THEN <<>> ELSE <<"_">>) \o SubNonWord(Tail(s), TRUE)
         ELSE <<Head(s)>> \o SubNonWord(Tail(s), FALSE)

SlugMax == 120

safe_slug(text) ==
    IF text = <<>> THEN <<"site">>
    ELSE LET s == SubNonWord(Strip(text), FALSE)
             c == SubSeq(s, 1, IF Len(s) < SlugMax THEN Len(s) ELSE SlugMax)
         IN IF c = <<>> THEN <<"site">> ELSE c

\* ------------------------------------------------------------------ urljoin
\* urllib.parse.urljoin on token strings.  "//[" stands for a netloc with an
\* unclosed bracket, on which urlsplit raises ValueError (Invalid IPv6 URL).
Schemes == {"http:", "javascript:", "mailto:"}

UrljoinRaises(base, u) ==
    base # <<>> /\ u # <<>> /\
    ((\E k \in 1..Len(base) : base[k] = "//[") \/ (\E k \in 1..Len(u) : u[k] = "//["))

Origin(base) == SplitFirst(base, "/")

DirOf(base) ==
    IF \E k \in 1..Len(base) : base[k] = "/"
    THEN LET k == CHOOSE k \in 1..Len(base) : base[k] = "/" /\ \A j \in (k + 1)..Len(base) : base[j] # "/"
         IN SubSeq(base, 1, k)
    ELSE base \o <<"/">>

Urljoin(base, u) ==
    IF base = <<>> THEN u
    ELSE IF u = <<>> THEN base
    ELSE LET c == RemoveAll(LStrip(u), "\t")
         IN IF c = <<>> THEN base
            ELSE IF Head(c) \in Schemes THEN c
            ELSE IF Head(c) = "#" THEN base \o c
            ELSE IF Head(c) = "/" THEN Origin(base) \o c
            ELSE DirOf(base) \o c

\* ----------------------------------------------------------- normalize_href
normalize_href(href, base, prefix) ==
    IF href = <<>> THEN <<>>
    ELSE LET h == Strip(href)
             base_for_join == IF prefix # <<>> THEN prefix ELSE base
         IN IF StartsWith(h, <<"javascript:">>) \/ StartsWith(h, <<"mailto:">>) \/ StartsWith(h, <<"#">>)
            THEN <<>>
            ELSE IF UrljoinRaises(base_for_join, h) THEN <<>>
            ELSE Urljoin(base_for_join, h)

\* ------------------------------------------------------------ the document
\* An element: tag, class, text content, attributes (name/value, in order).
\* An item node is an element with child elements.
HasAttr(el, a) == \E k \in 1..Len(el.attrs) : el.attrs[k].k = a

\* element.get(a): the value, or nothing (None and "" are both falsy and the
\* code never tells them apart).
AttrGet(el, a) ==
    IF HasAttr(el, a)
    THEN el.attrs[CHOOSE k \in 1..Len(el.attrs) : el.attrs[k].k = a /\ \A j \in 1..(k - 1) : el.attrs[j].k # a].v
    ELSE <<>>

\* get_text(" ", strip=True)
get_text(el) == Strip(el.text)

\* A selector is a tag token optionally followed by a class token; a selector
\* holding "[" is one the query engine rejects with an exception.
SelectorInvalid(sel) == \E k \in 1..Len(sel) : sel[k] = "["

Matches(el, sel) ==
    /\ Len(sel) \in {1, 2}
    /\ sel[1] = el.tag
    /\ Len(sel) = 2 => sel[2] = el.cls

NoEl == [tag |-> "", cls |-> "", text |-> <<>>, attrs |-> <<>>]

\* The first of the children at the positions in hits, in document order.
FirstMatch(children, hits) ==
    IF hits # {}
    THEN [found |-> TRUE, el |-> children[CHOOSE k \in hits : \A j \in hits : k <= j]]
    ELSE [found |-> FALSE, el |-> NoEl]

\* elem.select_one(sel)
select_one(elem, sel) ==
    IF SelectorInvalid(sel) THEN [exc |-> TRUE, found |-> FALSE, el |-> NoEl]
    ELSE LET r == FirstMatch(elem.children, {k \in 1..Len(elem.children) : Matches(elem.children[k], sel)})
         IN [exc |-> FALSE, found |-> r.found, el |-> r.el]

\* elem.find(tag)
find(elem, tag) ==
    FirstMatch(elem.children, {k \in 1..Len(elem.children) : elem.children[k].tag = tag})

\* soup.select(item_selector)
select(doc, sel) ==
    IF SelectorInvalid(sel) THEN [exc |-> TRUE, els |-> <<>>]
    ELSE LET P(e) == Matches(e, sel)
         IN [exc |-> FALSE, els |-> SelectSeq(doc, P)]

\* ------------------------------------------------------------ pick_image_src
ImgAttrs == <<"src", "data-src", "data-original", "data-lazy">>

pick_image_src(element) ==
    LET hit == {k \in 1..Len(ImgAttrs) : AttrGet(element, ImgAttrs[k]) # <<>>}
    IN IF hit # {}
       THEN AttrGet(element, ImgAttrs[CHOOSE k \in hit : \A j \in hit : k <= j])
       ELSE IF HasAttr(element, "srcset")
            THEN SplitFirst(Strip(SplitFirst(AttrGet(element, "srcset"), ",")), " ")
            ELSE <<>>

\* ------------------------------------------- the helpers of the item loop
\* "sel and isinstance(sel, str) and sel.strip()"
UsableSel(sel) == Truthy(sel) /\ sel.t = "str" /\ Strip(sel.s) # <<>>

\* safe_text taking the text as it stands, without strip=True.
safe_text_unstripped(elem, sel) ==
    IF ~UsableSel(sel) THEN <<>>
    ELSE LET r == select_one(elem, Strip(sel.s))
         IN IF r.exc THEN <<>> ELSE IF r.found THEN r.el.text ELSE <<>>

safe_text(elem, sel) ==
    IF ~UsableSel(sel) THEN <<>>
    ELSE LET r == select_one(elem, Strip(sel.s))
         IN IF r.exc THEN <<>> ELSE IF r.found THEN get_text(r.el) ELSE <<>>

\* The href safe_link hands to normalize_href: the selected element's, else
\* the first anchor's.
LinkHref(elem, sel) ==
    LET r == IF UsableSel(sel) THEN select_one(elem, Strip(sel.s))
             ELSE [exc |-> FALSE, found |-> FALSE, el |-> NoEl]
        bySel == IF ~r.exc /\ r.found THEN AttrGet(r.el, "href") ELSE <<>>
        a == find(elem, "a")
    IN IF bySel # <<>> THEN bySel
       ELSE IF a.found THEN AttrGet(a.el, "href") ELSE <<>>

safe_link(elem, sel, base, prefix) == normalize_href(LinkHref(elem, sel), base, prefix)

\* The image source safe_image resolves: the selected element's, else the
\* first img's.
ImageSrc(elem, sel) ==
    LET r == IF UsableSel(sel) THEN select_one(elem, Strip(sel.s))
             ELSE [exc |-> FALSE, found |-> FALSE, el |-> NoEl]
        bySel == IF ~r.exc /\ r.found THEN pick_image_src(r.el) ELSE <<>>
        img == find(elem, "img")
    IN IF bySel # <<>> THEN bySel
       ELSE IF img.found THEN pick_image_src(img.el) ELSE <<>>

\* urljoin is called outside any try: its exception leaves the helper.
safe_image(elem, sel, base, prefix) ==
    LET img_src == ImageSrc(elem, sel)
        b == IF prefix # <<>> THEN prefix ELSE base
    IN IF img_src = <<>> THEN [exc |-> FALSE, v |-> <<>>]
       ELSE IF UrljoinRaises(b, img_src) THEN [exc |-> TRUE, v |-> <<>>]
       ELSE [exc |-> FALSE, v |-> Urljoin(b, img_src)]

\* fields.get(key + "_is", "") + safe_text(...): str + str, anything else on
\* the left raises TypeError.
WithPrefix(pre, text) ==
    IF pre.t = "str" THEN [exc |-> FALSE, v |-> pre.s \o text]
    ELSE [exc |-> TRUE, v |-> <<>>]

NoItem == [title |-> <<>>, subtitle |-> <<>>, description |-> <<>>, link |-> <<>>,
           picture |-> <<>>, idx |-> 0]

\* One pass of the body of the item loop for the node at selection index n:
\* "ok" appends the item, "skip" is the title check's continue, "error" is
\* the except branch.  idx records n in the item (it is not a key of the
\* code's dict).
ProcessItem(flds, base, prefix, elem, n) ==
    IF flds.kind # "map" THEN [status |-> "error", item |-> NoItem]
    ELSE LET title == safe_text(elem, FieldGet(flds.title))
             subtitle == WithPrefix(FieldGet(flds.subtitle_is), safe_text(elem, FieldGet(flds.subtitle)))
             description == WithPrefix(FieldGet(flds.description_is), safe_text(elem, FieldGet(flds.description)))
             link == safe_link(elem, FieldGet(flds.link), base, prefix)
             picture == safe_image(elem, FieldGet(flds.picture), base, prefix)
         IN IF subtitle.exc \/ description.exc \/ picture.exc
            THEN [status |-> "error", item |-> NoItem]
            ELSE IF title = <<>> THEN [status |-> "skip", item |-> NoItem]
            ELSE [status |-> "ok",
                  item |-> [title |-> title, subtitle |-> subtitle.v,
                            description |-> description.v,
                            link |-> IF link = <<>> THEN base ELSE link,
                            picture |-> picture.v, idx |-> n]]

\* ------------------------------------------------------ build_and_write_feed
\* build_and_write_feed without its check for an empty list.
ShouldWriteAlways(ents) == TRUE

\* "if not entries: ... return"
ShouldWrite(ents) == ents # <<>>

\* The entry added to the feed for one item (" - " stands for the dash the
\* code puts between title and subtitle).
FeedEntry(e) ==
    [title |-> IF e.subtitle # <<>> THEN e.title \o <<" - ">> \o e.subtitle ELSE e.title,
     link |-> e.link,
     description |-> IF e.picture # <<>>
                     THEN <<"<img src=">> \o e.picture \o <<" alt=image /><br/>">> \o e.description
                     ELSE e.description]

\* The feed object handed to rss_file (pubDate, the time of the run, is left out).
Feed(name, c, ents) ==
    [title |-> name,
     link |-> IF c.url.t = "missing" THEN Str(<<>>) ELSE c.url,
     description |-> IF c.description.t = "missing" THEN Str(name) ELSE c.description,
     language |-> IF c.language.t = "missing" THEN Str(<<"en">>) ELSE c.language,
     items |-> [k \in 1..Len(ents) |-> FeedEntry(ents[k])]]

OUTPUT_DIR == <<"docs", "/">>

OutPath(name) == OUTPUT_DIR \o safe_slug(name) \o <<".xml">>

\* ------------------------------------------------------------------ inputs
AllWhitespace(s) == \A k \in 1..Len(s) : s[k] \in WS

\* A config value that counts as absent once defaulted and trimmed.
Blank(v) == v.t \in {"missing", "none"} \/ (v.t = "str" /\ AllWhitespace(v.s))

El(tag, cls, text, attrs) == [tag |-> tag, cls |-> cls, text |-> text, attrs |-> attrs]
At(k, v) == [k |-> k, v |-> v]
H2(t) == El("h2", "", t, <<>>)
Para(t) == El("p", "", t, <<>>)
Anchor(cls, href) == El("a", cls, <<>>, <<At("href", href)>>)
Img(attrs) == El("img", "", <<>>, attrs)
Node(tag, children) == [tag |-> tag, cls |-> "", text |-> <<>>, attrs |-> <<>>, children |-> children]

NPlain == Node("article", <<H2(<<"t1">>), Para(<<"sub">>), Anchor("", <<"x">>), Img(<<At("src", <<"pic">>)>>)>>)
NBlank == Node("article", <<H2(<<" ", "\t">>), Anchor("", <<"/", "x">>)>>)
NNoTitle == Node("article", <<Anchor("", <<"x">>)>>)
NWsHref == Node("article", <<H2(<<"t2">>), Anchor("", <<" ">>)>>)
NJs == Node("article", <<H2(<<" ", "t3", " ">>), Anchor("", <<" ", "javascript:", "x">>),
                         Img(<<At("src", <<"javascript:", "x">>)>>)>>)
NLazy == Node("article", <<H2(<<"t4">>),
                           Img(<<At("srcset", <<"s1", " ", "1x", ",", "s2">>), At("data-src", <<"lazy">>)>>)>>)
NTab == Node("article", <<H2(<<"t5">>), Anchor("", <<"#", "top">>),
                          Img(<<At("srcset", <<"s1", "\t", "1x">>)>>)>>)
NBadImg == Node("article", <<H2(<<"t6">>), Anchor("", <<"//[">>), Img(<<At("src", <<"//[">>)>>)>>)
NMore == Node("article", <<H2(<<"t7">>), Anchor("", <<"mailto:", "x">>),
                           Anchor(".more", <<"http:", "t", "/", "y">>),
                           Img(<<At("src", <<>>), At("srcset", <<" ", "s1", " ", "2x">>)>>)>>)
NAside == Node("aside", <<H2(<<"t8">>)>>)

NodeSet == {NPlain, NBlank, NNoTitle, NWsHref, NJs, NLazy, NTab, NBadImg, NMore, NAside}

BaseFields ==
    [kind |-> "map", title |-> Str(<<"h2">>), subtitle |-> Missing, subtitle_is |-> Missing,
     description |-> Missing, description_is |-> Missing, link |-> Missing, picture |-> Missing]

\* "{}": what a missing, null or empty "fields" (or config) is replaced by.
EmptyFields ==
    [kind |-> "map", title |-> Missing, subtitle |-> Missing, subtitle_is |-> Missing,
     description |-> Missing, description_is |-> Missing, link |-> Missing, picture |-> Missing]

EmptyCfg ==
    [kind |-> "map", site_name |-> Missing, url |-> Missing, item_selector |-> Missing,
     link_prefix |-> Missing, fields |-> [EmptyFields EXCEPT !.kind = "none"],
     description |-> Missing, language |-> Missing]

BaseCfg ==
    [kind |-> "map", site_name |-> Str(<<"my", " ", "site">>), url |-> Str(<<"http:", "s", "/", "p">>),
     item_selector |-> Str(<<"article">>), link_prefix |-> Missing, fields |-> BaseFields,
     description |-> Missing, language |-> Missing]

CStd == [BaseCfg EXCEPT !.fields = [BaseFields EXCEPT !.link = Str(<<"a">>), !.picture = Str(<<"img">>),
                                                      !.subtitle = Str(<<"p">>)]]
CPrefix == [BaseCfg EXCEPT !.link_prefix = Str(<<" ", "http:", "t", "/">>), !.language = Str(<<"de">>),
                           !.fields = [BaseFields EXCEPT !.subtitle_is = Str(<<"lbl">>),
                                                         !.description = Str(<<" ", "p">>),
                                                         !.description_is = Str(<<"d:">>),
                                                         !.link = Str(<<"a", ".more">>),
                                                         !.picture = Str(<<"img">>)]]
CNullPrefix == [BaseCfg EXCEPT !.fields = [BaseFields EXCEPT !.subtitle_is = None, !.link = Str(<<"a">>)]]
CBadTitle == [BaseCfg EXCEPT !.fields = [BaseFields EXCEPT !.title = Str(<<"[">>)]]
CNoFields == [BaseCfg EXCEPT !.fields = [EmptyFields EXCEPT !.kind = "none"]]
COtherFields == [BaseCfg EXCEPT !.fields = [EmptyFields EXCEPT !.kind = "other"]]
CBadPic == [BaseCfg EXCEPT !.description = Str(<<"about">>),
                           !.fields = [BaseFields EXCEPT !.picture = Str(<<"[">>), !.link = Other,
                                                         !.description_is = Other]]
CBadLink == [BaseCfg EXCEPT !.fields = [BaseFields EXCEPT !.picture = Other, !.link = Str(<<"[">>),
                                                          !.subtitle = Str(<<"nope">>)]]
COtherTitle == [BaseCfg EXCEPT !.fields = [BaseFields EXCEPT !.title = Other]]
CBadSel == [BaseCfg EXCEPT !.item_selector = Str(<<"[">>)]
CNoUrl == [BaseCfg EXCEPT !.url = None]
CNoSel == [BaseCfg EXCEPT !.item_selector = Str(<<" ">>)]
COtherName == [BaseCfg EXCEPT !.site_name = Other]
CList == [EmptyCfg EXCEPT !.kind = "list"]
CNone == [EmptyCfg EXCEPT !.kind = "none"]
CUnderscore == [CStd EXCEPT !.site_name = Str(<<"my", "_", "site">>)]
CNoName == [CStd EXCEPT !.site_name = Missing]

CfgSet == {CStd, CPrefix, CNullPrefix, CBadTitle, CNoFields, COtherFields, CBadPic, CBadLink,
           COtherTitle, CBadSel, CNoUrl, CNoSel, COtherName, CList, CNone}

\* The directory listing is sorted: names in ascending order, no name twice.
FileNames == <<[stem |-> <<"a">>, ext |-> "txt"], [stem |-> <<"a">>, ext |-> "yaml"],
               [stem |-> <<"a">>, ext |-> "yml"], [stem |-> <<"b">>, ext |-> "YML"]>>

Lower(ext) == IF ext = "YML" THEN "yml" ELSE ext

\* What a run meets at one config file: whether it parses, what it parses to,
\* and what the site answers.
Input(ok, c, fetch_ok, doc) == [yaml_ok |-> ok, cfg |-> c, resp |-> [ok |-> fetch_ok, doc |-> doc]]

SmallInputs ==
    {Input(TRUE, CStd, TRUE, <<NPlain, NWsHref>>),
     Input(TRUE, CUnderscore, TRUE, <<NMore>>),
     Input(TRUE, CNoName, TRUE, <<NLazy>>),
     Input(TRUE, CList, TRUE, <<NPlain>>),
     Input(TRUE, CNoUrl, TRUE, <<NPlain>>),
     Input(TRUE, CStd, FALSE, <<>>),
     Input(FALSE, CNone, TRUE, <<>>),
     Input(TRUE, CStd, TRUE, <<NBlank>>)}

SeqsUpTo(S, n) == UNION {[1..k -> S] : k \in 0..n}

RECURSIVE SortedSeq(_)
SortedSeq(S) ==
    IF S = {} THEN <<>>
    ELSE LET m == CHOOSE m \in S : \A x \in S : m <= x
         IN <<m>> \o SortedSeq(S \ {m})

FileOf(n, inp) == [name |-> FileNames[n], yaml_ok |-> inp.yaml_ok, cfg |-> inp.cfg, resp |-> inp.resp]

\* Runs over several config files.
Listings ==
    UNION {LET names == SortedSeq(S)
           IN {[k \in 1..Len(names) |-> FileOf(names[k], ins[k])] : ins \in [1..Len(names) -> SmallInputs]}
           : S \in {T \in SUBSET (1..Len(FileNames)) : Cardinality(T) <= MaxFiles}}

\* The configs that reach the item loop, and those that end before it.
LoopCfgs == {c \in CfgSet : c.kind = "map" /\ c.site_name.t # "other" /\ ~Blank(c.url)
                            /\ ~Blank(c.item_selector) /\ ~SelectorInvalid(c.item_selector.s)}

\* Runs over one config file: a config that reaches the item loop with any
\* document, the other configs with a document of at most one node.
SingleSite ==
    {<<FileOf(3, Input(TRUE, c, TRUE, d))>> : c \in LoopCfgs, d \in SeqsUpTo(NodeSet, MaxNodes)}
    \cup {<<FileOf(3, Input(TRUE, c, TRUE, d))>> : c \in CfgSet \ LoopCfgs, d \in SeqsUpTo(NodeSet, 1)}

NoFeed == [title |-> <<>>, link |-> None, description |-> None, language |-> None, items |-> <<>>]
NoWrite == [path |-> <<>>, feed |-> NoFeed]
NoNode == Node("", <<>>)

\* ------------------------------------------------------------------- state
Init ==
    /\ files \in Listings \cup SingleSite
    /\ feeds_dir \in (IF files = <<>> THEN BOOLEAN ELSE {TRUE})
    /\ pc = "start"
    /\ fi = 1
    /\ cfg = EmptyCfg
    /\ site_name = <<>>
    /\ url = <<>>
    /\ link_prefix = <<>>
    /\ fields = EmptyFields
    /\ elements = <<>>
    /\ i = 1
    /\ entries = <<>>
    /\ fs = [p \in {} |-> NoFeed]
    /\ outcome = [k \in 1..Len(files) |-> "pending"]
    /\ wrote = [k \in 1..Len(files) |-> NoWrite]
    /\ fetched = {}

locals == <<cfg, site_name, url, link_prefix, fields, elements, i, entries>>

\* main, the check of the feeds directory
MainStart ==
    /\ pc = "start"
    /\ pc' = IF feeds_dir THEN "loop" ELSE "done"
    /\ UNCHANGED <<feeds_dir, files, fi, locals, fs, outcome, wrote, fetched>>

\* main, one pass of the loop over the listing up to the call of
\* scrape_site_from_cfg
MainIter ==
    /\ pc = "loop"
    /\ fi <= Len(files)
    /\ LET f == files[fi]
       IN IF Lower(f.name.ext) \notin {"yml", "yaml"}
          THEN /\ outcome' = [outcome EXCEPT ![fi] = "ignored"]
               /\ fi' = fi + 1
               /\ UNCHANGED <<pc, cfg>>
          ELSE IF ~f.yaml_ok
          THEN /\ outcome' = [outcome EXCEPT ![fi] = "skipped"]
               /\ fi' = fi + 1
               /\ UNCHANGED <<pc, cfg>>
          ELSE /\ cfg' = IF f.cfg.kind = "none" THEN EmptyCfg ELSE f.cfg
               /\ pc' = "scrape"
               /\ UNCHANGED <<fi, outcome>>
    /\ UNCHANGED <<feeds_dir, files, site_name, url, link_prefix, fields, elements, i, entries,
                   fs, wrote, fetched>>

\* main, the end of the loop
MainDone ==
    /\ pc = "loop"
    /\ fi > Len(files)
    /\ pc' = "done"
    /\ UNCHANGED <<feeds_dir, files, fi, locals, fs, outcome, wrote, fetched>>

\* scrape_site_from_cfg up to the item loop.  An exception here is caught
\* nowhere and ends the run.
ScrapeSetup ==
    /\ pc = "scrape"
    /\ LET f == files[fi]
           sn == StripOrEmpty(cfg.site_name)
           u == StripOrEmpty(cfg.url)
           sel == StripOrEmpty(cfg.item_selector)
           lp == StripOrEmpty(cfg.link_prefix)
           name == IF sn.v # <<>> THEN sn.v ELSE safe_slug(f.name.stem)
           found == select(f.resp.doc, sel.v)
           return_empty == /\ pc' = "build"
                           /\ elements' = <<>>
                           /\ entries' = <<>>
                           /\ i' = 1
       IN IF cfg.kind # "map" \/ sn.exc \/ u.exc
          THEN /\ pc' = "crashed"
               /\ UNCHANGED <<site_name, url, link_prefix, fields, elements, i, entries, fetched>>
          ELSE IF u.v = <<>>
          THEN /\ site_name' = name
               /\ url' = u.v
               /\ return_empty
               /\ UNCHANGED <<link_prefix, fields, fetched>>
          ELSE IF sel.exc
          THEN /\ pc' = "crashed"
               /\ UNCHANGED <<site_name, url, link_prefix, fields, elements, i, entries, fetched>>
          ELSE IF sel.v = <<>>
          THEN /\ site_name' = name
               /\ url' = u.v
               /\ return_empty
               /\ UNCHANGED <<link_prefix, fields, fetched>>
          ELSE IF lp.exc
          THEN /\ pc' = "crashed"
               /\ UNCHANGED <<site_name, url, link_prefix, fields, elements, i, entries, fetched>>
          ELSE /\ site_name' = name
               /\ url' = u.v
               /\ fields' = IF cfg.fields.kind = "none" THEN EmptyFields ELSE cfg.fields
               /\ link_prefix' = lp.v
               /\ fetched' = fetched \cup {fi}
               /\ IF ~f.resp.ok \/ found.exc
                  THEN return_empty
                  ELSE /\ elements' = found.els
                       /\ entries' = <<>>
                       /\ i' = 1
                       /\ pc' = "items"
    /\ UNCHANGED <<feeds_dir, files, fi, cfg, fs, outcome, wrote>>

\* scrape_site_from_cfg, one pass of the item loop
ScrapeItem ==
    /\ pc = "items"
    /\ i <= Len(elements)
    /\ LET r == ProcessItem(fields, url, link_prefix, elements[i], i)
       IN entries' = IF r.status = "ok" THEN Append(entries, r.item) ELSE entries
    /\ i' = i + 1
    /\ UNCHANGED <<feeds_dir, files, pc, fi, cfg, site_name, url, link_prefix, fields, elements,
                   fs, outcome, wrote, fetched>>

\* scrape_site_from_cfg, after the item loop
ScrapeFinish ==
    /\ pc = "items"
    /\ i > Len(elements)
    /\ entries' = Reverse(entries)
    /\ pc' = "build"
    /\ UNCHANGED <<feeds_dir, files, fi, cfg, site_name, url, link_prefix, fields, elements, i,
                   fs, outcome, wrote, fetched>>

\* build_and_write_feed, and the return to the loop of main.  rss_file either
\* writes the file or raises, which is caught.
BuildAndWrite ==
    /\ pc = "build"
    /\ IF ~ShouldWrite(entries)
       THEN /\ outcome' = [outcome EXCEPT ![fi] = "skipped"]
            /\ UNCHANGED <<fs, wrote>>
       ELSE \E ok \in BOOLEAN :
              IF ok
              THEN /\ fs' = (OutPath(site_name) :> Feed(site_name, cfg, entries)) @@ fs
                   /\ wrote' = [wrote EXCEPT ![fi] = [path |-> OutPath(site_name),
                                                      feed |-> Feed(site_name, cfg, entries)]]
                   /\ outcome' = [outcome EXCEPT ![fi] = "written"]
              ELSE /\ outcome' = [outcome EXCEPT ![fi] = "skipped"]
                   /\ UNCHANGED <<fs, wrote>>
    /\ fi' = fi + 1
    /\ pc' = "loop"
    /\ cfg' = EmptyCfg
    /\ site_name' = <<>>
    /\ url' = <<>>
    /\ link_prefix' = <<>>
    /\ fields' = EmptyFields
    /\ elements' = <<>>
    /\ i' = 1
    /\ entries' = <<>>
    /\ UNCHANGED <<feeds_dir, files, fetched>>

Next ==
    \/ MainStart
    \/ MainIter
    \/ MainDone
    \/ ScrapeSetup
    \/ ScrapeItem
    \/ ScrapeFinish
    \/ BuildAndWrite

Spec == Init /\ [][Next]_vars

\* ------------------------------------------------------------------ claims
IsYaml(f) == Lower(files[f].name.ext) \in {"yml", "yaml"}

\* The nodes the item loop has gone through.
Processed == IF pc \in {"items", "build"} THEN {n \in 1..Len(elements) : n < i} ELSE {}

HasEntry(n) == \E k \in 1..Len(entries) : entries[k].idx = n

\* The node's title is empty: no usable title selector, an invalid one, no
\* match, or a match whose text is empty or whitespace only.
TitleIsEmpty(flds, elem) ==
    \/ flds.kind # "map"
    \/ flds.title.t # "str"
    \/ AllWhitespace(flds.title.s)
    \/ SelectorInvalid(Strip(flds.title.s))
    \/ ~select_one(elem, Strip(flds.title.s)).found
    \/ AllWhitespace(select_one(elem, Strip(flds.title.s)).el.text)

\* C1: a node whose extracted title is empty has no entry in the sequence
\* being returned, and every entry has a non-empty title that is not
\* whitespace only.
C1_EmptyTitleDropped ==
    /\ \A k \in 1..Len(entries) : entries[k].title # <<>> /\ ~AllWhitespace(entries[k].title)
    /\ \A n \in Processed : TitleIsEmpty(fields, elements[n]) => ~HasEntry(n)

C1_Witness ==
    /\ pc = "build"
    /\ Len(entries) >= 1
    /\ \E n \in 1..Len(elements) :
         /\ UsableSel(fields.title)
         /\ select_one(elements[n], Strip(fields.title.s)).found
         /\ TitleIsEmpty(fields, elements[n])
         /\ ~HasEntry(n)

\* Extraction produced no usable href for the node.
NoUsableHref(flds, elem) ==
    LET h == LinkHref(elem, FieldGet(flds.link))
    IN \/ AllWhitespace(h)
       \/ StartsWith(LStrip(h), <<"javascript:">>)
       \/ StartsWith(LStrip(h), <<"mailto:">>)
       \/ StartsWith(LStrip(h), <<"#">>)

\* C2: every entry's link is non-empty, and the link of an entry whose node
\* gave no usable href is the site's url, with or without link_prefix.
C2_LinkFallsBackToUrl ==
    \A k \in 1..Len(entries) :
        /\ entries[k].link # <<>>
        /\ (pc \in {"items", "build"} /\ NoUsableHref(fields, elements[entries[k].idx]))
             => entries[k].link = url

Survives(n) == ProcessItem(fields, url, link_prefix, elements[n], n).status = "ok"

\* C3: the returned sequence holds one entry per surviving node, in the
\* reverse of the selection order of the nodes.
C3_ReverseOfSelectionOrder ==
    pc = "build" =>
        /\ \A p, q \in 1..Len(entries) : p < q => entries[p].idx > entries[q].idx
        /\ {entries[k].idx : k \in 1..Len(entries)} = {n \in 1..Len(elements) : Survives(n)}
        /\ Len(entries) = Cardinality({n \in 1..Len(elements) : Survives(n)})
        /\ (Len(elements) = 3 /\ \A n \in 1..3 : Survives(n))
             => <<entries[1].idx, entries[2].idx, entries[3].idx>> = <<3, 2, 1>>

C3_Witness ==
    /\ pc = "build"
    /\ Len(elements) = 3
    /\ Len(entries) = 3
    /\ entries[1].title # entries[3].title

\* C4: normalize_href gives the empty string for an href that is empty,
\* whitespace only, or that starts (once trimmed) with javascript:, mailto:
\* or #, whatever the base and the prefix.
C4_NormalizeRejects ==
    \A n \in Processed :
        LET h == LinkHref(elements[n], FieldGet(fields.link))
        IN (fields.kind = "map" /\ NoUsableHref(fields, elements[n]))
             => normalize_href(h, url, link_prefix) = <<>>

\* C5: the picture of an entry is the image source put through
\* normalize_href, and a source that cannot be resolved gives an entry with
\* an empty picture.
C5_PictureNormalized ==
    /\ \A k \in 1..Len(entries) :
         LET src == ImageSrc(elements[entries[k].idx], FieldGet(fields.picture))
         IN src # <<>> => entries[k].picture = normalize_href(src, url, link_prefix)
    /\ \A n \in Processed :
         (/\ fields.kind = "map"
          /\ ~TitleIsEmpty(fields, elements[n])
          /\ FieldGet(fields.subtitle_is).t = "str"
          /\ FieldGet(fields.description_is).t = "str")
           => \E k \in 1..Len(entries) :
                /\ entries[k].idx = n
                /\ (UrljoinRaises(IF link_prefix # <<>> THEN link_prefix ELSE url,
                                  ImageSrc(elements[n], FieldGet(fields.picture)))
                      => entries[k].picture = <<>>)

\* s up to its first whitespace token.
UpToWhitespace(s) ==
    IF \E k \in 1..Len(s) : s[k] \in WS
    THEN SubSeq(s, 1, (CHOOSE k \in 1..Len(s) : s[k] \in WS /\ \A j \in 1..(k - 1) : s[j] \notin WS) - 1)
    ELSE s

\* What the precedence rule gives for an element.
ByPrecedence(el) ==
    IF AttrGet(el, "src") # <<>> THEN AttrGet(el, "src")
    ELSE IF AttrGet(el, "data-src") # <<>> THEN AttrGet(el, "data-src")
    ELSE IF AttrGet(el, "data-original") # <<>> THEN AttrGet(el, "data-original")
    ELSE IF AttrGet(el, "data-lazy") # <<>> THEN AttrGet(el, "data-lazy")
    ELSE UpToWhitespace(Strip(SplitFirst(AttrGet(el, "srcset"), ",")))

\* C6: pick_image_src gives the first non-empty of src, data-src,
\* data-original, data-lazy, else the token before the first whitespace of
\* the first srcset candidate, else the empty string.
C6_ImageAttributePrecedence ==
    \A n \in Processed :
        \A k \in 1..Len(elements[n].children) :
            elements[n].children[k].tag = "img"
              => pick_image_src(elements[n].children[k]) = ByPrecedence(elements[n].children[k])

\* C7: a failure in one field of a node empties that field only: a node
\* with a non-empty title still gets its entry.
C7_FieldFailureIsolated ==
    \A n \in Processed : (fields.kind = "map" /\ ~TitleIsEmpty(fields, elements[n])) => HasEntry(n)

\* C8: when the run has ended, every config file of the listing has been
\* taken to "written" or "skipped".
C8_EverySiteProcessed ==
    pc \in {"done", "crashed"} =>
        (feeds_dir => \A f \in 1..Len(files) : IsYaml(f) => outcome[f] \in {"written", "skipped"})

LacksUrlOrSelector(f) ==
    /\ files[f].yaml_ok
    /\ files[f].cfg.kind # "list"
    /\ Blank(files[f].cfg.url) \/ Blank(files[f].cfg.item_selector)

\* The site of file f has no entry that passes validation.
NoValidEntry(f) ==
    LET c == files[f].cfg
        flds == IF c.fields.kind = "none" THEN EmptyFields ELSE c.fields
        sel == Strip(c.item_selector.s)
        lp == IF c.link_prefix.t = "str" THEN Strip(c.link_prefix.s) ELSE <<>>
    IN \/ ~files[f].yaml_ok
       \/ c.kind # "map"
       \/ LacksUrlOrSelector(f)
       \/ ~files[f].resp.ok
       \/ SelectorInvalid(sel)
       \/ \A n \in 1..Len(files[f].resp.doc) :
            Matches(files[f].resp.doc[n], sel)
              => ProcessItem(flds, Strip(c.url.s), lp, files[f].resp.doc[n], n).status # "ok"

\* C9: a site without a valid entry never has a file written, a site
\* without url or item_selector is never fetched, and every file in the
\* output directory comes from a site with at least one entry.
C9_NoWriteWithoutEntries ==
    /\ \A f \in 1..Len(files) : NoValidEntry(f) => (outcome[f] # "written" /\ wrote[f] = NoWrite)
    /\ \A f \in 1..Len(files) : LacksUrlOrSelector(f) => f \notin fetched
    /\ \A p \in DOMAIN fs : fs[p].items # <<>>
    /\ DOMAIN fs = {wrote[f].path : f \in {g \in 1..Len(files) : outcome[g] = "written"}}

C9_Witness ==
    /\ pc = "done"
    /\ \E f, g \in 1..Len(files) :
         /\ LacksUrlOrSelector(f)
         /\ outcome[f] = "skipped"
         /\ outcome[g] = "written"
         /\ DOMAIN fs = {wrote[g].path}

\* C10: the file of every site that was written holds that site's feed, and
\* no two sites are written to the same path.
C10_OutputsIndependent ==
    \A f \in 1..Len(files) :
        outcome[f] = "written" =>
            /\ wrote[f].path \in DOMAIN fs
            /\ fs[wrote[f].path] = wrote[f].feed
            /\ \A g \in 1..Len(files) : (g # f /\ outcome[g] = "written") => wrote[g].path # wrote[f].path

====
